---- MODULE Spec2Model ----
(***************************************************************************)
(* Tomatine timer core: the TimerEngine (lib/timer-engine) and the timer   *)
(* store (lib/stores/timer-store) with the database service they persist   *)
(* through.                                                                *)
(*                                                                         *)
(* Time is the wall clock in milliseconds (Date.now()).  The clock only    *)
(* moves in the Advance action; every handler reads one instant.           *)
(* null and undefined are both NULL: the code only ever tests these        *)
(* fields for truthiness.                                                  *)
(***************************************************************************)
EXTENDS Integers, Sequences, FiniteSets, TLC

NULL == -1

\* ---- program constants (lib/types TIMER_CONSTANTS, timer-store defaults) ----
TIMER_UPDATE_INTERVAL == 1000
DRIFT_THRESHOLD == 5000
DefaultFocusDuration == 25 * 60 * 1000
DefaultBreakDuration == 5 * 60 * 1000
DefaultWarmupDuration == 3 * 60 * 1000

\* ---- bounds ----
\* the engine clock runs for at most MaxTicks update intervals
MaxTicks == 7
\* the store clock runs for at most MaxSteps steps
MaxSteps == 2
\* pending throttling timeouts / unreferenced animation-frame requests
MaxPending == 1
\* session records the caller creates through startWarmup / startFocus
MaxSessions == 1
\* store actions suspended at an await at the same time
MaxInflight == 2

VARIABLES
  now,          \* Date.now()
  \* -- TimerEngine --
  state,        \* this.state
  updateId,     \* this.updateId: "none" | "pending" (request not yet run) | "fired" (stale handle)
  orphans,      \* animation-frame requests still pending whose handle was overwritten
  timeouts,     \* pending throttling setTimeout callbacks (never cancelled by the engine)
  intervalId,   \* this.intervalId is set (a live setInterval)
  isVisible,    \* this.isVisible
  rafSupported, \* this.rafSupported
  listening,    \* the visibilitychange listener is registered
  completions,  \* onComplete invocations for the current countdown
  configUpdateInterval, \* this.config.updateInterval
  \* -- timer store and database --
  store,          \* the zustand state of useTimerStore
  updateInterval, \* the module-level updateInterval of timer-store is armed
  sessions,       \* db.sessions, the record with id i at index i
  timerState,     \* db.timerState: <<>> or <<the record with id 'current'>>
  dbFault,        \* the database call that rejects at present, or "none"
  loading,        \* the restoreState() issued at module load has not settled yet
  inflight,       \* store actions suspended at their database await, with what they captured
  effects,        \* what complete() has done since the current focus phase began
  \* -- observation --
  calls,        \* callbacks invoked by the last handler, in order
  lastOp,       \* the last operation or event handled (clock advance excluded)
  rep,          \* the operation before lastOp was the same operation, with no event between
  prevMode,     \* the store's mode when the last store operation was invoked
  result        \* how the promise of the last store operation settled

engineVars == <<state, updateId, orphans, timeouts, intervalId, isVisible,
                rafSupported, listening, completions, configUpdateInterval>>
storeVars == <<store, updateInterval, sessions, timerState, dbFault, loading,
               inflight, effects>>
obsVars == <<calls, lastOp, rep, prevMode, result>>
vars == <<now, engineVars, storeVars, obsVars>>

Max(a, b) == IF a >= b THEN a ELSE b
Abs(a) == IF a >= 0 THEN a ELSE 0 - a

\* JavaScript truthiness of a number | null field
Truthy(x) == x # NULL /\ x # 0

\* ---- lib/utils ----
calculateRemaining(targetAt) == Max(0, targetAt - now)

detectDrift(lastUpdate, driftThreshold) ==
  LET expectedUpdate == lastUpdate + 1000
  IN  Abs(now - expectedUpdate) > driftThreshold

\* ---- TimerEngine ----
config == [updateInterval |-> configUpdateInterval,
           driftThreshold |-> DRIFT_THRESHOLD]

IdleState ==
  [mode |-> "idle", targetAt |-> NULL, startedAt |-> NULL, pausedAt |-> NULL,
   lastUpdate |-> now, isRunning |-> FALSE]

\* The engine as one value, so that the private methods compose.
\* thrower: the callback that throws when this handler invokes it, or "none";
\* threw: a callback has thrown and the exception is unwinding the handler
EngineWith(thrower) ==
  [s |-> state, updateId |-> updateId, orphans |-> orphans, timeouts |-> timeouts,
   intervalId |-> intervalId, isVisible |-> isVisible, calls |-> <<>>,
   completions |-> completions, thrower |-> thrower, threw |-> FALSE]

Engine == EngineWith("none")

Call(f, arg) == [f |-> f, arg |-> arg]

\* invoke the callback f of the configuration
Invoke(e, f, arg) ==
  [e EXCEPT !.calls = Append(@, Call(f, arg)), !.threw = (e.thrower = f)]

stopUpdateLoop(e) ==
  \* cancelAnimationFrame on a handle that already ran cancels nothing
  [e EXCEPT !.updateId = "none", !.intervalId = FALSE]

scheduleRAFUpdate(e) ==
  IF ~e.s.isRunning THEN e
  ELSE [e EXCEPT !.updateId = "pending",
                 !.orphans = IF e.updateId = "pending" THEN @ + 1 ELSE @]

scheduleIntervalUpdate(e) ==
  IF e.intervalId THEN e ELSE [e EXCEPT !.intervalId = TRUE]

startUpdateLoop(e) ==
  IF e.updateId # "none" \/ e.intervalId THEN e
  ELSE IF rafSupported /\ e.isVisible THEN scheduleRAFUpdate(e)
       ELSE scheduleIntervalUpdate(e)

\* performUpdate completing on every expired tick, running or not
performUpdate_NoRunningCheck(e) ==
  IF ~Truthy(e.s.targetAt) \/ Truthy(e.s.pausedAt) THEN e
  ELSE
    LET remaining == calculateRemaining(e.s.targetAt)
        ticked == Invoke([e EXCEPT !.s.lastUpdate = now], "onTick", remaining)
    IN  IF ticked.threw THEN ticked
        ELSE IF remaining <= 0
        THEN LET halted == stopUpdateLoop([ticked EXCEPT !.s.isRunning = FALSE])
             IN  Invoke([halted EXCEPT !.completions = @ + 1], "onComplete", 0)
        ELSE ticked

performUpdate(e) ==
  IF ~Truthy(e.s.targetAt) \/ Truthy(e.s.pausedAt) THEN e
  ELSE
    LET remaining == calculateRemaining(e.s.targetAt)
        ticked == Invoke([e EXCEPT !.s.lastUpdate = now], "onTick", remaining)
    IN  IF ticked.threw THEN ticked
        ELSE IF remaining <= 0 /\ ticked.s.isRunning
        THEN LET halted == stopUpdateLoop([ticked EXCEPT !.s.isRunning = FALSE])
             IN  Invoke([halted EXCEPT !.completions = @ + 1], "onComplete", 0)
        ELSE ticked

\* start that leaves pausedAt as it finds it
start_KeepsPausedAt(e, durationMs, mode) ==
  startUpdateLoop(
    [e EXCEPT !.s = [mode |-> mode, targetAt |-> now + durationMs, startedAt |-> now,
                     pausedAt |-> e.s.pausedAt, lastUpdate |-> now, isRunning |-> TRUE],
              !.completions = 0])

start(e, durationMs, mode) ==
  startUpdateLoop(
    [e EXCEPT !.s = [mode |-> mode, targetAt |-> now + durationMs, startedAt |-> now,
                     pausedAt |-> NULL, lastUpdate |-> now, isRunning |-> TRUE],
              !.completions = 0])

\* pause without its early return
pause_NoGuard(e) ==
  stopUpdateLoop([e EXCEPT !.s.pausedAt = now, !.s.isRunning = FALSE,
                           !.s.lastUpdate = now])

pause(e) ==
  IF ~e.s.isRunning \/ Truthy(e.s.pausedAt) THEN e
  ELSE stopUpdateLoop([e EXCEPT !.s.pausedAt = now, !.s.isRunning = FALSE,
                                !.s.lastUpdate = now])

\* resume that forgets to extend the target by the paused duration
resume_NoShift(e) ==
  IF e.s.isRunning \/ ~Truthy(e.s.pausedAt) \/ ~Truthy(e.s.targetAt) THEN e
  ELSE startUpdateLoop([e EXCEPT !.s.pausedAt = NULL,
                                 !.s.isRunning = TRUE,
                                 !.s.lastUpdate = now])

resume(e) ==
  IF e.s.isRunning \/ ~Truthy(e.s.pausedAt) \/ ~Truthy(e.s.targetAt) THEN e
  ELSE LET pausedDuration == now - e.s.pausedAt
       IN  startUpdateLoop([e EXCEPT !.s.targetAt = @ + pausedDuration,
                                     !.s.pausedAt = NULL,
                                     !.s.isRunning = TRUE,
                                     !.s.lastUpdate = now])

\* stop that cancels the loop and keeps the state record
stop_KeepsState(e) == stopUpdateLoop(e)

stop(e) == stopUpdateLoop([e EXCEPT !.s = IdleState])

\* getRemaining that reads the target of a paused countdown
getRemaining_IgnoresPause(s) ==
  IF ~Truthy(s.targetAt) THEN 0
  ELSE calculateRemaining(s.targetAt)

getRemaining(s) ==
  IF ~Truthy(s.targetAt) \/ Truthy(s.pausedAt) THEN 0
  ELSE calculateRemaining(s.targetAt)

checkAndCorrectDrift(e) ==
  IF ~e.s.isRunning \/ ~Truthy(e.s.targetAt) THEN e
  ELSE IF detectDrift(e.s.lastUpdate, config.driftThreshold)
       THEN LET expectedTime == e.s.lastUpdate + config.updateInterval
                actualDrift == Abs(now - expectedTime)
                warned == Invoke(e, "onDriftDetected", actualDrift)
            IN  IF warned.threw THEN warned
                ELSE performUpdate([warned EXCEPT !.s.lastUpdate = now])
       ELSE e

setTargetTime(e, targetAt, mode, startedAt) ==
  LET set == [e EXCEPT !.s = [mode |-> mode, targetAt |-> targetAt,
                              startedAt |-> IF Truthy(startedAt) THEN startedAt ELSE now,
                              pausedAt |-> NULL, lastUpdate |-> now,
                              isRunning |-> targetAt > now],
                       !.completions = 0]
  IN  IF set.s.isRunning THEN startUpdateLoop(set) ELSE set

addTime(e, additionalMs) ==
  IF ~Truthy(e.s.targetAt) THEN e
  ELSE [e EXCEPT !.s.targetAt = @ + additionalMs, !.s.lastUpdate = now]

\* subtractTime without the clamp at now
subtractTime_NoClamp(e, reduceMs) ==
  IF ~Truthy(e.s.targetAt) THEN e
  ELSE [e EXCEPT !.s.targetAt = @ - reduceMs, !.s.lastUpdate = now]

subtractTime(e, reduceMs) ==
  IF ~Truthy(e.s.targetAt) THEN e
  ELSE [e EXCEPT !.s.targetAt = Max(now, @ - reduceMs), !.s.lastUpdate = now]

\* the visibilitychange listener installed by setupVisibilityHandling
handleVisibilityChange(e, hidden) ==
  LET wasVisible == e.isVisible
      e1 == [e EXCEPT !.isVisible = ~hidden]
  IN  IF ~e1.s.isRunning THEN e1
      ELSE IF e1.isVisible /\ ~wasVisible
           THEN LET e2 == checkAndCorrectDrift(e1)
                IN  IF e2.threw THEN e2
                    ELSE IF rafSupported /\ e2.intervalId
                    THEN startUpdateLoop(stopUpdateLoop(e2))
                    ELSE e2
      ELSE IF ~e1.isVisible /\ wasVisible
           THEN IF rafSupported /\ e1.updateId # "none"
                THEN scheduleIntervalUpdate(stopUpdateLoop(e1))
                ELSE e1
      ELSE e1

\* the requestAnimationFrame callback of scheduleRAFUpdate
rafCallback(e) ==
  LET e1 == performUpdate(e)
  IN  IF ~e1.threw /\ e1.s.isRunning THEN [e1 EXCEPT !.timeouts = @ + 1] ELSE e1

\* the setInterval callback of scheduleIntervalUpdate
intervalCallback(e) == IF e.s.isRunning THEN performUpdate(e) ELSE e

\* ---- engine actions ----
Observe(op, cs) ==
  /\ calls' = cs
  /\ lastOp' = op
  /\ rep' = (lastOp = op /\ op \in {"pause", "resume", "stop"})

\* document.removeEventListener for the handler setupVisibilityHandling installed
removeVisibilityHandling(l) == FALSE

destroy(e) == stop(e)

ApplyEngineListening(e, op, l) ==
  /\ e.orphans <= MaxPending
  /\ e.timeouts <= MaxPending
  /\ state' = e.s
  /\ updateId' = e.updateId
  /\ orphans' = e.orphans
  /\ timeouts' = e.timeouts
  /\ intervalId' = e.intervalId
  /\ isVisible' = e.isVisible
  /\ completions' = e.completions
  /\ Observe(op, e.calls)
  /\ result' = IF e.threw THEN "threw" ELSE "void"
  /\ listening' = l
  /\ UNCHANGED <<now, rafSupported, configUpdateInterval, storeVars, prevMode>>

ApplyEngine(e, op) == ApplyEngineListening(e, op, listening)

EngineDurations == {TIMER_UPDATE_INTERVAL, 3 * TIMER_UPDATE_INTERVAL}
EngineModes == {"focus"}
EngineSteps == {TIMER_UPDATE_INTERVAL, DRIFT_THRESHOLD + 2 * TIMER_UPDATE_INTERVAL}
Epoch == TIMER_UPDATE_INTERVAL
EngineHorizon == Epoch + MaxTicks * TIMER_UPDATE_INTERVAL

EngStart ==
  \E d \in EngineDurations, m \in EngineModes :
    /\ now + d <= EngineHorizon
    /\ ApplyEngine(start(Engine, d, m), "start")
EngPause == ApplyEngine(pause(Engine), "pause")
EngResume == ApplyEngine(resume(Engine), "resume")
EngStop == ApplyEngine(stop(Engine), "stop")
EngDestroy ==
  ApplyEngineListening(destroy(Engine), "destroy", removeVisibilityHandling(listening))

\* the amounts a caller adds or takes: nothing, one tick, more than a countdown
AdjustMs == {0, TIMER_UPDATE_INTERVAL, 5 * TIMER_UPDATE_INTERVAL}

AddTimeBy(ms) ==
  /\ Truthy(state.targetAt) => state.targetAt + ms <= EngineHorizon
  /\ ApplyEngine(addTime(Engine, ms), "addTime")
SubtractTimeBy(ms) == ApplyEngine(subtractTime(Engine, ms), "subtractTime")
EngAddTime == \E ms \in AdjustMs : AddTimeBy(ms)
EngSubtractTime == \E ms \in AdjustMs : SubtractTimeBy(ms)

EngCheckDriftWith(th) ==
  ApplyEngine(checkAndCorrectDrift(EngineWith(th)), "checkAndCorrectDrift")
EngCheckDrift == EngCheckDriftWith("none")

EngSetTargetTime ==
  \E t \in {now - TIMER_UPDATE_INTERVAL, now, now + TIMER_UPDATE_INTERVAL},
     m \in EngineModes, sa \in {NULL, Epoch} :
       /\ t > 0
       /\ ApplyEngine(setTargetTime(Engine, t, m, sa), "setTargetTime")


VisibilityChangeWith(th) ==
  /\ listening
  /\ \E hidden \in BOOLEAN :
       ApplyEngine(handleVisibilityChange(EngineWith(th), hidden), "visibilitychange")
VisibilityChange == VisibilityChangeWith("none")

\* the animation frame whose handle is in updateId runs
RafFireWith(th) ==
  /\ updateId = "pending"
  /\ ApplyEngine(rafCallback([EngineWith(th) EXCEPT !.updateId = "fired"]), "raf")
RafFire == RafFireWith("none")

\* an animation frame whose handle was overwritten runs
OrphanRafFireWith(th) ==
  /\ orphans > 0
  /\ ApplyEngine(rafCallback([EngineWith(th) EXCEPT !.orphans = @ - 1]), "raf")
OrphanRafFire == OrphanRafFireWith("none")

\* a throttling timeout runs
TimeoutFire ==
  /\ timeouts > 0
  /\ ApplyEngine(scheduleRAFUpdate([Engine EXCEPT !.timeouts = @ - 1]), "timeout")

IntervalFireWith(th) ==
  /\ intervalId
  /\ ApplyEngine(intervalCallback(EngineWith(th)), "interval")
IntervalFire == IntervalFireWith("none")

\* the wall clock moves; no handler runs
Advance(d) ==
  /\ now' = now + d
  /\ calls' = <<>>
  /\ UNCHANGED <<engineVars, storeVars, lastOp, rep, prevMode, result>>

EngAdvance == \E d \in EngineSteps : now + d <= EngineHorizon /\ Advance(d)


\* ---- database service (lib/database DatabaseService) ----
createSession(ss, sessionData) ==
  Append(ss, [sessionData EXCEPT !.completed = FALSE])

completeSession(ss, id, updates) ==
  IF id \in 1..Len(ss) /\ ~ss[id].deleted
  THEN [ss EXCEPT ![id] = [@ EXCEPT !.completed = TRUE,
                                    !.actualFocusMs = updates.actualFocusMs,
                                    !.moodEnd = IF updates.moodEnd # "none"
                                                THEN updates.moodEnd ELSE @]]
  ELSE ss

\* <<>> when there is no such record
getSession(ss, id) ==
  IF id \in 1..Len(ss) /\ ~ss[id].deleted THEN <<ss[id]>> ELSE <<>>

\* a deleted record keeps its id (ids are never reused) and nothing else
Deleted ==
  [moodStart |-> "none", completed |-> FALSE, actualFocusMs |-> NULL,
   moodEnd |-> "none", deleted |-> TRUE]

deleteSession(ss, id) ==
  IF id \in 1..Len(ss) THEN [ss EXCEPT ![id] = Deleted] ELSE ss

\* the lastUpdate stamp of the record is never read back and is left out
setTimerState(rec) == <<rec>>

clearTimerState == <<>>

\* ---- timer store (lib/stores/timer-store useTimerStore) ----
Moods == {"calm", "tired"}

\* x || undefined
OrUndefined(x) == IF Truthy(x) THEN x ELSE NULL

InitialStore ==
  [mode |-> "idle", targetAt |-> NULL, startedAt |-> NULL, pausedAt |-> NULL,
   remaining |-> 0, sessionId |-> NULL, lastUpdate |-> now,
   focusDuration |-> DefaultFocusDuration,
   breakDuration |-> DefaultBreakDuration,
   warmupDuration |-> DefaultWarmupDuration,
   moodStart |-> "none", isRunning |-> FALSE, isPaused |-> FALSE]

\* The store, the interval of its subscription and the database as one value,
\* so that actions that call other actions compose.
\* threw: an awaited call rejected and the action's promise rejects with it;
\* ret: the value the action resolves with otherwise
World ==
  [st |-> store, updateInterval |-> updateInterval, sessions |-> sessions,
   timerState |-> timerState, calls |-> <<>>, fault |-> dbFault,
   threw |-> FALSE, ret |-> "void", inflight |-> inflight, effects |-> effects]

\* the listener arming the interval and never clearing it
isRunningListener_NeverClears(w, isRunning) ==
  IF isRunning /\ ~w.updateInterval THEN [w EXCEPT !.updateInterval = TRUE]
  ELSE w

\* the listener subscribed on state => state.isRunning
isRunningListener(w, isRunning) ==
  IF isRunning /\ ~w.updateInterval THEN [w EXCEPT !.updateInterval = TRUE]
  ELSE IF ~isRunning /\ w.updateInterval THEN [w EXCEPT !.updateInterval = FALSE]
  ELSE w

\* zustand set(): the selector subscription fires when isRunning changed
set(w, st) ==
  LET w1 == [w EXCEPT !.st = st]
  IN  IF st.isRunning # w.st.isRunning THEN isRunningListener(w1, st.isRunning) ELSE w1

\* persistState writing the record without its pausedAt
persistState_DropsPausedAt(w) ==
  IF w.st.mode = "idle" THEN w
  ELSE [w EXCEPT !.timerState =
          setTimerState([mode |-> w.st.mode,
                         startedAt |-> OrUndefined(w.st.startedAt),
                         targetAt |-> OrUndefined(w.st.targetAt),
                         pausedAt |-> NULL,
                         sessionId |-> OrUndefined(w.st.sessionId)])]

\* persistState catching the rejection of the write
persistState_SwallowsFailure(w) ==
  IF w.st.mode = "idle" \/ w.fault = "setTimerState" THEN w
  ELSE [w EXCEPT !.timerState =
          setTimerState([mode |-> w.st.mode,
                         startedAt |-> OrUndefined(w.st.startedAt),
                         targetAt |-> OrUndefined(w.st.targetAt),
                         pausedAt |-> OrUndefined(w.st.pausedAt),
                         sessionId |-> OrUndefined(w.st.sessionId)])]

persistState(w) ==
  IF w.st.mode = "idle" THEN w
  ELSE IF w.fault = "setTimerState" THEN [w EXCEPT !.threw = TRUE]
  ELSE [w EXCEPT !.timerState =
          setTimerState([mode |-> w.st.mode,
                         startedAt |-> OrUndefined(w.st.startedAt),
                         targetAt |-> OrUndefined(w.st.targetAt),
                         pausedAt |-> OrUndefined(w.st.pausedAt),
                         sessionId |-> OrUndefined(w.st.sessionId)])]

\* clearState leaving the 'current' record in place
clearState_KeepsRecord(w) == w

clearState(w) == [w EXCEPT !.timerState = clearTimerState]

NewSession(st) ==
  [moodStart |-> st.moodStart, completed |-> FALSE, actualFocusMs |-> NULL,
   moodEnd |-> "none", deleted |-> FALSE]

\* startWarmup creating the session record without linking it
startWarmup_Unlinked(w) ==
  LET targetAt == now + w.st.warmupDuration
      w1 == [w EXCEPT !.sessions = createSession(@, NewSession(w.st))]
  IN  persistState(set(w1, [w1.st EXCEPT !.mode = "warmup", !.startedAt = now,
                                         !.targetAt = targetAt, !.pausedAt = NULL,
                                         !.isRunning = TRUE,
                                         !.isPaused = FALSE, !.lastUpdate = now]))

startWarmup(w) ==
  LET targetAt == now + w.st.warmupDuration
      w1 == [w EXCEPT !.sessions = createSession(@, NewSession(w.st))]
      sessionId == Len(w1.sessions)
  IN  persistState(set(w1, [w1.st EXCEPT !.mode = "warmup", !.startedAt = now,
                                         !.targetAt = targetAt, !.pausedAt = NULL,
                                         !.sessionId = sessionId, !.isRunning = TRUE,
                                         !.isPaused = FALSE, !.lastUpdate = now]))

\* startFocus creating a session record whether or not one is linked
startFocus_AlwaysCreates(w, skipWarmup) ==
  LET targetAt == now + w.st.focusDuration
      w1 == [w EXCEPT !.sessions = createSession(@, NewSession(w.st))]
      sessionId == Len(w1.sessions)
  IN  persistState(set(w1, [w1.st EXCEPT !.mode = "focus", !.startedAt = now,
                                         !.targetAt = targetAt, !.pausedAt = NULL,
                                         !.sessionId = sessionId, !.isRunning = TRUE,
                                         !.isPaused = FALSE, !.lastUpdate = now]))

startFocus(w, skipWarmup) ==
  LET targetAt == now + w.st.focusDuration
      create == ~Truthy(w.st.sessionId) \/ skipWarmup
      w1 == IF create
            THEN [w EXCEPT !.sessions = createSession(@, NewSession(w.st))]
            ELSE w
      sessionId == IF create THEN Len(w1.sessions) ELSE w.st.sessionId
  IN  persistState(set(w1, [w1.st EXCEPT !.mode = "focus", !.startedAt = now,
                                         !.targetAt = targetAt, !.pausedAt = NULL,
                                         !.sessionId = sessionId, !.isRunning = TRUE,
                                         !.isPaused = FALSE, !.lastUpdate = now]))

startBreak(w) ==
  LET targetAt == now + w.st.breakDuration
  IN  persistState(set(w, [w.st EXCEPT !.mode = "break", !.startedAt = now,
                                       !.targetAt = targetAt, !.pausedAt = NULL,
                                       !.isRunning = TRUE, !.isPaused = FALSE,
                                       !.lastUpdate = now]))

\* pause that stamps pausedAt and leaves the isPaused flag alone
storePause_NoFlag(w) ==
  persistState(set(w, [w.st EXCEPT !.pausedAt = now, !.isRunning = FALSE,
                                   !.lastUpdate = now]))

storePause(w) ==
  persistState(set(w, [w.st EXCEPT !.pausedAt = now, !.isRunning = FALSE,
                                   !.isPaused = TRUE, !.lastUpdate = now]))

\* resume that keeps the target of the moment of the pause
storeResume_NoShift(w) ==
  IF ~Truthy(w.st.pausedAt) \/ ~Truthy(w.st.targetAt) THEN w
  ELSE persistState(set(w, [w.st EXCEPT !.pausedAt = NULL,
                                        !.isRunning = TRUE, !.isPaused = FALSE,
                                        !.lastUpdate = now]))

storeResume(w) ==
  IF ~Truthy(w.st.pausedAt) \/ ~Truthy(w.st.targetAt) THEN w
  ELSE LET pausedDuration == now - w.st.pausedAt
           newTargetAt == w.st.targetAt + pausedDuration
       IN  persistState(set(w, [w.st EXCEPT !.targetAt = newTargetAt, !.pausedAt = NULL,
                                            !.isRunning = TRUE, !.isPaused = FALSE,
                                            !.lastUpdate = now]))

\* stop leaving the session linkage in place
storeStop_KeepsSession(w) ==
  clearState(set(w, [w.st EXCEPT !.mode = "idle", !.targetAt = NULL, !.startedAt = NULL,
                                 !.pausedAt = NULL, !.remaining = 0,
                                 !.isRunning = FALSE, !.isPaused = FALSE,
                                 !.moodStart = "none", !.lastUpdate = now]))

storeStop(w) ==
  clearState(set(w, [w.st EXCEPT !.mode = "idle", !.targetAt = NULL, !.startedAt = NULL,
                                 !.pausedAt = NULL, !.remaining = 0, !.sessionId = NULL,
                                 !.isRunning = FALSE, !.isPaused = FALSE,
                                 !.moodStart = "none", !.lastUpdate = now]))

\* complete recording the selected mood as moodEnd whether or not it changed
complete_AlwaysMoodEnd(w) ==
  IF Truthy(w.st.sessionId) /\ w.st.mode = "focus"
  THEN LET actualFocusMs == IF Truthy(w.st.startedAt) THEN now - w.st.startedAt
                            ELSE w.st.focusDuration
           moodEnd == w.st.moodStart
           w1 == [w EXCEPT !.sessions =
                     completeSession(@, w.st.sessionId,
                                     [actualFocusMs |-> actualFocusMs, moodEnd |-> moodEnd]),
                           !.calls = Append(@, Call("onSessionCompleted", 0))]
       IN  startBreak(w1)
  ELSE storeStop(w)

\* complete recording the planned focus duration instead of the elapsed time
complete_PlannedDuration(w) ==
  IF Truthy(w.st.sessionId) /\ w.st.mode = "focus"
  THEN LET actualFocusMs == w.st.focusDuration
           existing == getSession(w.sessions, w.st.sessionId)
           moodEnd == IF w.st.moodStart # "none" /\ existing # <<>>
                         /\ existing[1].moodStart # w.st.moodStart
                      THEN w.st.moodStart ELSE "none"
           w1 == [w EXCEPT !.sessions =
                     completeSession(@, w.st.sessionId,
                                     [actualFocusMs |-> actualFocusMs, moodEnd |-> moodEnd]),
                           !.calls = Append(@, Call("onSessionCompleted", 0))]
       IN  startBreak(w1)
  ELSE storeStop(w)

complete(w) ==
  IF Truthy(w.st.sessionId) /\ w.st.mode = "focus"
  THEN LET actualFocusMs == IF Truthy(w.st.startedAt) THEN now - w.st.startedAt
                            ELSE w.st.focusDuration
           existing == getSession(w.sessions, w.st.sessionId)
           moodEnd == IF w.st.moodStart # "none" /\ existing # <<>>
                         /\ existing[1].moodStart # w.st.moodStart
                      THEN w.st.moodStart ELSE "none"
           w1 == [w EXCEPT !.sessions =
                     completeSession(@, w.st.sessionId,
                                     [actualFocusMs |-> actualFocusMs, moodEnd |-> moodEnd]),
                           !.calls = Append(@, Call("onSessionCompleted", 0))]
       IN  startBreak(w1)
  ELSE storeStop(w)

\* skip treating the focus phase like the break phase
skip_FocusStops(w) ==
  IF w.st.mode = "warmup" THEN startFocus(w, FALSE)
  ELSE IF w.st.mode = "focus" THEN storeStop(w)
  ELSE IF w.st.mode = "break" THEN storeStop(w)
  ELSE w

skip(w) ==
  IF w.st.mode = "warmup" THEN startFocus(w, FALSE)
  ELSE IF w.st.mode = "focus" THEN complete(w)
  ELSE IF w.st.mode = "break" THEN storeStop(w)
  ELSE w

updateRemaining(w) ==
  IF ~Truthy(w.st.targetAt) \/ w.st.isPaused THEN w
  ELSE LET remaining == calculateRemaining(w.st.targetAt)
           w1 == set(w, [w.st EXCEPT !.remaining = remaining, !.lastUpdate = now])
       IN  IF remaining = 0 /\ w.st.isRunning THEN complete(w1) ELSE w1

checkDrift(w) == detectDrift(w.st.lastUpdate, DRIFT_THRESHOLD)

recalculateTime(w) ==
  IF ~Truthy(w.st.targetAt) THEN w
  ELSE set(w, [w.st EXCEPT !.remaining = calculateRemaining(w.st.targetAt),
                           !.lastUpdate = now])

\* the visibilitychange listener the timer-store module installs
storeVisibilityChange(w, hidden) ==
  IF ~hidden /\ w.st.isRunning /\ checkDrift(w) THEN recalculateTime(w) ELSE w

\* restoreState that takes a paused phase for a running one
restoreState_IgnoresPause(w) ==
  IF w.fault = "getTimerState" THEN [w EXCEPT !.threw = TRUE]
  ELSE IF w.timerState = <<>> THEN w
  ELSE LET ts == w.timerState[1]
           remaining == IF Truthy(ts.targetAt)
                        THEN calculateRemaining(ts.targetAt) ELSE 0
       IN  set(w, [w.st EXCEPT !.mode = ts.mode, !.startedAt = ts.startedAt,
                               !.targetAt = ts.targetAt, !.pausedAt = ts.pausedAt,
                               !.sessionId = ts.sessionId, !.remaining = remaining,
                               !.isRunning = ts.mode # "idle" /\ remaining > 0,
                               !.isPaused = Truthy(ts.pausedAt),
                               !.lastUpdate = now])

restoreState(w) ==
  IF w.fault = "getTimerState" THEN [w EXCEPT !.threw = TRUE]
  ELSE IF w.timerState = <<>> THEN w
  ELSE LET ts == w.timerState[1]
           remaining == IF Truthy(ts.targetAt) /\ ~Truthy(ts.pausedAt)
                        THEN calculateRemaining(ts.targetAt) ELSE 0
       IN  set(w, [w.st EXCEPT !.mode = ts.mode, !.startedAt = ts.startedAt,
                               !.targetAt = ts.targetAt, !.pausedAt = ts.pausedAt,
                               !.sessionId = ts.sessionId, !.remaining = remaining,
                               !.isRunning = ts.mode # "idle" /\ ~Truthy(ts.pausedAt)
                                             /\ remaining > 0,
                               !.isPaused = Truthy(ts.pausedAt),
                               !.lastUpdate = now])

Bool(b) == IF b THEN "true" ELSE "false"

hasRecoverableSession(w) ==
  IF w.fault = "getTimerState" THEN [w EXCEPT !.threw = TRUE]
  ELSE [w EXCEPT !.ret = Bool(w.timerState # <<>> /\ w.timerState[1].mode # "idle")]

\* recoverSession recomputing the time without loading the persisted record
recoverSession_NoRestore(w) ==
  IF w.fault = "getTimerState" THEN [w EXCEPT !.threw = TRUE]
  ELSE IF w.timerState = <<>> \/ w.timerState[1].mode = "idle"
       THEN [w EXCEPT !.ret = "false"]
       ELSE [recalculateTime(w) EXCEPT !.ret = "true"]

recoverSession(w) ==
  IF w.fault = "getTimerState" THEN [w EXCEPT !.threw = TRUE]
  ELSE IF w.timerState = <<>> \/ w.timerState[1].mode = "idle"
       THEN [w EXCEPT !.ret = "false"]
       ELSE [recalculateTime(restoreState(w)) EXCEPT !.ret = "true"]

discardRecovery(w) ==
  LET w1 == IF Truthy(w.st.sessionId)
            THEN [w EXCEPT !.sessions = deleteSession(@, w.st.sessionId)]
            ELSE w
  IN  storeStop(clearState(w1))




setMoodStart(w, mood) == [w EXCEPT !.st.moodStart = mood]

\* a new page load: the module is evaluated again (fresh store, no interval)
\* over the database the previous process left, and calls restoreState()
moduleLoad(w) ==
  restoreState([w EXCEPT !.st = InitialStore, !.updateInterval = FALSE])

\* ---- store actions ----
ApplyStoreLoad(w, op, ld) ==
  /\ store' = w.st
  /\ updateInterval' = w.updateInterval
  /\ sessions' = w.sessions
  /\ timerState' = w.timerState
  /\ loading' = ld
  /\ inflight' = w.inflight
  /\ effects' = w.effects
  /\ Observe(op, w.calls)
  /\ prevMode' = store.mode
  /\ result' = IF w.threw THEN "rejected" ELSE w.ret
  /\ UNCHANGED <<now, engineVars, dbFault>>

ApplyStore(w, op) == ApplyStoreLoad(w, op, loading)

\* the caller starts at most MaxSessions sessions
StartWarmup ==
  /\ Len(sessions) < MaxSessions
  /\ ApplyStore(startWarmup(World), "startWarmup")

StartFocus ==
  \E skipWarmup \in BOOLEAN :
    /\ (~Truthy(store.sessionId) \/ skipWarmup) => Len(sessions) < MaxSessions
    /\ ApplyStore(startFocus(World, skipWarmup), "startFocus")
StartBreak == ApplyStore(startBreak(World), "startBreak")
Pause == ApplyStore(storePause(World), "pause")
Resume == ApplyStore(storeResume(World), "resume")
Skip == ApplyStore(skip(World), "skip")
Stop == ApplyStore(storeStop(World), "stop")
Complete == ApplyStore(complete(World), "complete")

\* the setInterval callback armed by the isRunning subscription
UpdateTick ==
  /\ updateInterval
  /\ ApplyStore(updateRemaining(World), "updateRemaining")

RecoverSession == ApplyStore(recoverSession(World), "recoverSession")
DiscardRecovery == ApplyStore(discardRecovery(World), "discardRecovery")
ModuleLoad == ApplyStore(moduleLoad(World), "load")

StoreVisibilityChangeTo(hidden) ==
  ApplyStore(storeVisibilityChange(World, hidden), "visibilitychange")
StoreVisibilityChange == \E hidden \in BOOLEAN : StoreVisibilityChangeTo(hidden)

HasRecoverable == ApplyStore(hasRecoverableSession(World), "hasRecoverableSession")

\* the page is loaded anew: the module is evaluated over the database the
\* previous process left, and its restoreState() call is in flight
PageLoad ==
  ApplyStoreLoad([World EXCEPT !.st = InitialStore, !.updateInterval = FALSE], "load", TRUE)

\* the restoreState() issued at module load settles
RestoreSettles ==
  /\ loading
  /\ ApplyStoreLoad(restoreState(World), "restoreState", FALSE)

\* the external store starts (or stops, f = "none") rejecting the call f
SetFault(f) ==
    /\ dbFault # f
    /\ dbFault' = f
    /\ calls' = <<>>
    /\ UNCHANGED <<now, engineVars, store, updateInterval, sessions, timerState,
                   loading, inflight, effects, lastOp, rep, prevMode, result>>

\* the mood selector; not a timer operation, so lastOp keeps the last one
SetMoodStart ==
  \E m \in Moods \cup {"none"} :
    /\ store' = setMoodStart(World, m).st
    /\ calls' = <<>>
    /\ UNCHANGED <<now, engineVars, updateInterval, sessions, timerState, dbFault,
                   loading, inflight, effects, lastOp, rep, prevMode, result>>

\* the store clock moves in steps of one focus duration, so that every phase
\* can run out within the horizon with the default durations
StoreStep == DefaultFocusDuration
StoreHorizon == Epoch + MaxSteps * StoreStep
StoreAdvance == now + StoreStep <= StoreHorizon /\ Advance(StoreStep)

\* nothing done by complete() yet
NoEffects == [completeSession |-> 0, onSessionCompleted |-> 0, startBreak |-> 0]

InitStoreVars ==
  /\ store = InitialStore
  /\ updateInterval = FALSE
  /\ sessions = <<>>
  /\ timerState = <<>>
  /\ dbFault = "none"
  /\ loading = FALSE
  /\ inflight = <<>>
  /\ effects = NoEffects

InitEngineFields ==
  /\ state = IdleState
  /\ updateId = "none"
  /\ orphans = 0
  /\ timeouts = 0
  /\ intervalId = FALSE
  /\ isVisible = TRUE
  /\ listening = TRUE
  /\ completions = 0

\* the engine constructed without updateInterval / driftThreshold, as
\* useTimer constructs it
InitEngineVars ==
  /\ configUpdateInterval = TIMER_UPDATE_INTERVAL
  /\ InitEngineFields

InitObs ==
  /\ calls = <<>>
  /\ lastOp = "new"
  /\ rep = FALSE
  /\ prevMode = "idle"
  /\ result = "void"

Init ==
  /\ now = Epoch
  /\ InitStoreVars
  /\ InitEngineVars
  /\ rafSupported = TRUE
  /\ InitObs

Next ==
  \/ StartWarmup \/ StartFocus \/ StartBreak
  \/ Pause \/ Resume \/ Skip \/ Stop \/ Complete
  \/ UpdateTick
  \/ RecoverSession \/ DiscardRecovery \/ ModuleLoad
  \/ StoreAdvance

Spec == Init /\ [][Next]_vars

\* the timer store with the mood selector in use
NextMood == Next \/ SetMoodStart

SpecMood == Init /\ [][NextMood]_vars

\* the focus sessions of a user who selects moods: sessions are started, run
\* out, are skipped, stopped or reloaded, and are not paused
NextMoodEnd ==
  \/ StartWarmup \/ StartFocus
  \/ Skip \/ Stop \/ Complete
  \/ UpdateTick
  \/ ModuleLoad
  \/ SetMoodStart
  \/ StoreAdvance

SpecMoodEnd == Init /\ [][NextMoodEnd]_vars

InitEngine ==
  /\ now = Epoch
  /\ InitEngineVars
  /\ rafSupported \in BOOLEAN
  /\ InitStoreVars
  /\ InitObs

NextEngine ==
  \/ EngStart \/ EngPause \/ EngResume \/ EngStop
  \/ EngCheckDrift \/ EngSetTargetTime
  \/ VisibilityChange
  \/ RafFire \/ OrphanRafFire \/ TimeoutFire \/ IntervalFire
  \/ EngAdvance

SpecEngine == InitEngine /\ [][NextEngine]_vars

\* the TimerEngine with callbacks that may throw: each handler runs with one
\* of its callbacks throwing, or none
Throwers == {"none", "onTick", "onComplete", "onDriftDetected"}

ThrowCheckDrift == \E th \in Throwers : EngCheckDriftWith(th)
ThrowVisibilityChange == \E th \in Throwers : VisibilityChangeWith(th)
ThrowRafFire == \E th \in Throwers : RafFireWith(th)
ThrowOrphanRafFire == \E th \in Throwers : OrphanRafFireWith(th)
ThrowIntervalFire == \E th \in Throwers : IntervalFireWith(th)

NextThrow ==
  \/ EngStart \/ EngPause \/ EngResume \/ EngStop
  \/ ThrowCheckDrift
  \/ ThrowVisibilityChange
  \/ ThrowRafFire \/ ThrowOrphanRafFire \/ TimeoutFire \/ ThrowIntervalFire
  \/ EngAdvance

SpecThrow == InitEngine /\ [][NextThrow]_vars

\* the TimerEngine constructed with an updateInterval of the caller's choice
ConfigIntervals == {TIMER_UPDATE_INTERVAL, TIMER_UPDATE_INTERVAL \div 10}

InitDrift ==
  /\ now = Epoch
  /\ configUpdateInterval \in ConfigIntervals
  /\ InitEngineFields
  /\ rafSupported \in BOOLEAN
  /\ InitStoreVars
  /\ InitObs

NextDrift ==
  \/ EngStart \/ EngPause \/ EngResume \/ EngStop
  \/ EngCheckDrift
  \/ VisibilityChange
  \/ RafFire \/ OrphanRafFire \/ TimeoutFire \/ IntervalFire
  \/ EngAdvance

SpecDrift == InitDrift /\ [][NextDrift]_vars

\* the timer store across page loads, with a database whose calls can reject;
\* the clock moves in steps of one break duration
RecoveryStep == DefaultBreakDuration
RecoveryHorizon == Epoch + MaxSteps * RecoveryStep
RecoveryAdvance == now + RecoveryStep <= RecoveryHorizon /\ Advance(RecoveryStep)

\* reads of the persisted timer state can reject
ReadFault == \E f \in {"none", "getTimerState"} : SetFault(f)

NextRecovery ==
  \/ StartWarmup \/ StartFocus \/ StartBreak
  \/ Pause \/ Resume \/ Stop
  \/ UpdateTick
  \/ PageLoad \/ RestoreSettles
  \/ HasRecoverable \/ RecoverSession \/ DiscardRecovery
  \/ ReadFault
  \/ RecoveryAdvance

SpecRecovery == Init /\ [][NextRecovery]_vars

\* the timer store with a database whose writes of the timer state can reject
WriteFault == \E f \in {"none", "setTimerState"} : SetFault(f)

NextPersist ==
  \/ StartWarmup \/ StartFocus \/ StartBreak
  \/ Pause \/ Resume \/ Stop
  \/ UpdateTick
  \/ WriteFault
  \/ RecoveryAdvance

SpecPersist == Init /\ [][NextPersist]_vars

\* the TimerEngine of a component that unmounts: destroy() is the last public
\* call, and the frames, timeouts and intervals still queued run after it
NextDestroy ==
  \/ (listening /\ (EngStart \/ EngPause \/ EngResume \/ EngStop))
  \/ (listening /\ (EngCheckDrift \/ EngSetTargetTime))
  \/ (listening /\ EngDestroy)
  \/ VisibilityChange
  \/ RafFire \/ OrphanRafFire \/ TimeoutFire \/ IntervalFire
  \/ EngAdvance

SpecDestroy == InitEngine /\ [][NextDestroy]_vars

\* the timer store on a page that is hidden and shown; the clock moves in
\* steps of one break duration, and the update interval may or may not have
\* fired between two steps (timers of a hidden page are throttled)
NextVisible ==
  \/ StartWarmup \/ StartFocus \/ StartBreak
  \/ Pause \/ Resume \/ Stop
  \/ UpdateTick
  \/ StoreVisibilityChange
  \/ RecoveryAdvance

SpecVisible == Init /\ [][NextVisible]_vars

\* the TimerEngine and the timer store, which share no state: a run drives
\* one of the two objects, on that object's clock, while the other is as
\* constructed
StoreFresh ==
  /\ store = [InitialStore EXCEPT !.lastUpdate = Epoch]
  /\ prevMode = "idle"
  /\ sessions = <<>>
  /\ timerState = <<>>
  /\ ~updateInterval

EngineFresh ==
  /\ state = [IdleState EXCEPT !.lastUpdate = Epoch]
  /\ updateId = "none"
  /\ ~intervalId
  /\ timeouts = 0
  /\ orphans = 0
  /\ isVisible

OnStoreClock == (now - Epoch) % StoreStep = 0

NextEither ==
  \/ (StoreFresh /\ NextEngine)
  \/ (EngineFresh /\ OnStoreClock /\ Next)

SpecEither == InitEngine /\ [][NextEither]_vars

\* the TimerEngine of a caller that extends and shortens its countdowns
NextAdjust ==
  \/ EngStart \/ EngPause \/ EngResume \/ EngStop
  \/ EngAddTime \/ EngSubtractTime
  \/ RafFire \/ OrphanRafFire \/ TimeoutFire \/ IntervalFire
  \/ EngAdvance

SpecAdjust == InitEngine /\ [][NextAdjust]_vars

\* ---- properties of the TimerEngine ----
HasCall(cs, f) == \E i \in 1..Len(cs) : cs[i].f = f
ExpiredTick(cs) == \E i \in 1..Len(cs) : cs[i].f = "onTick" /\ cs[i].arg <= 0

\* C1: a countdown begun by start() or setTargetTime() gets onComplete at most
\* once, and gets it on the first tick that observes remaining <= 0 while
\* isRunning (that tick also leaves the engine not running); no later tick,
\* drift check or visibility switch invokes it again.
C1_CompleteOnce ==
  /\ [](completions <= 1)
  /\ [][(state.isRunning /\ ExpiredTick(calls'))
          => /\ HasCall(calls', "onComplete")
             /\ ~state'.isRunning
             /\ completions' = completions + 1]_vars

\* a tick that arrives after the countdown completed and does not complete it again
C1_Witness ==
  /\ completions = 1
  /\ ~state.isRunning
  /\ lastOp = "raf"
  /\ calls = <<Call("onTick", 0)>>

\* C8: pause() of a running countdown at time p records pausedAt = p and keeps
\* targetAt; resume() at time r >= p moves targetAt by exactly r - p, so that
\* getRemaining() right after resume() is the remaining time at p.
C8_PauseResumeKeepsRemaining ==
  /\ [][(lastOp' = "pause" /\ state.isRunning)
          => (state'.pausedAt = now /\ state'.targetAt = state.targetAt)]_vars
  /\ [][(lastOp' = "resume" /\ Truthy(state.pausedAt))
          => /\ state'.targetAt = state.targetAt + (now - state.pausedAt)
             /\ getRemaining(state') = Max(0, state.targetAt - state.pausedAt)]_vars

\* resumed after a pause that lasted: the target lies further from startedAt
\* than any duration start() was given
C8_Witness ==
  /\ lastOp = "resume"
  /\ state.isRunning
  /\ state.mode = "focus"
  /\ \A d \in EngineDurations : state.targetAt - state.startedAt > d
  /\ getRemaining(state) > 0

EngineView ==
  <<state.mode, state.targetAt, state.startedAt, state.pausedAt, state.isRunning,
    updateId, orphans, timeouts, intervalId>>

\* C9: a pause() directly after a pause() (whatever time passed between them)
\* leaves mode, targetAt, startedAt, pausedAt, isRunning and the armed
\* primitives as the first call left them; likewise resume() and stop().
C9_Idempotent ==
  [][(rep' /\ lastOp' \in {"pause", "resume", "stop"}) => EngineView' = EngineView]_vars

\* a second pause() issued later than the pause() that took effect
C9_Witness ==
  /\ rep
  /\ lastOp = "pause"
  /\ Truthy(state.pausedAt)
  /\ state.pausedAt < now

\* ---- properties of the timer store ----

\* the tick handler finds the countdown run out while running
TickAtZero ==
  /\ UpdateTick
  /\ Truthy(store.targetAt)
  /\ store.isRunning
  /\ calculateRemaining(store.targetAt) = 0

\* C2: when the warmup countdown completes (complete() runs, or the tick
\* handler observes remaining = 0, in mode warmup) the store goes to mode
\* focus with the warmup's sessionId and a running focus countdown.
C2_WarmupCompletesToFocus ==
  [][(store.mode = "warmup" /\ (Complete \/ TickAtZero))
       => /\ store'.mode = "focus"
          /\ store'.sessionId = store.sessionId
          /\ store'.isRunning
          /\ store'.targetAt = now + store.focusDuration]_vars

\* C3: complete() in mode focus with a sessionId marks that session completed
\* with actualFocusMs = now - startedAt and enters mode break, running and not
\* paused, with targetAt = now + breakDuration.
C3_FocusCompletesToBreak ==
  [][(store.mode = "focus" /\ Truthy(store.sessionId) /\ Complete)
       => /\ sessions'[store.sessionId].completed
          /\ sessions'[store.sessionId].actualFocusMs = now - store.startedAt
          /\ store'.mode = "break"
          /\ store'.targetAt = now + store.breakDuration
          /\ store'.isRunning
          /\ ~store'.isPaused]_vars

\* complete() has ended a focus phase that lasted longer than planned
C3_Witness ==
  /\ lastOp = "complete"
  /\ store.mode = "break"
  /\ store.startedAt = now
  /\ Truthy(store.sessionId)
  /\ sessions[store.sessionId].completed
  /\ sessions[store.sessionId].actualFocusMs > store.focusDuration

\* C4: after a page load that finds a persisted record with mode # idle, the
\* in-memory state is idle and not running, and no update interval is armed,
\* as long as the caller has invoked nothing.
C4_NoAutomaticResume ==
  (lastOp = "load" /\ timerState # <<>> /\ timerState[1].mode # "idle")
    => (store.mode = "idle" /\ ~store.isRunning /\ ~updateInterval)

PersistedMatchesMemory ==
  /\ timerState # <<>>
  /\ timerState[1].mode = store.mode
  /\ timerState[1].startedAt = store.startedAt
  /\ timerState[1].targetAt = store.targetAt
  /\ timerState[1].pausedAt = store.pausedAt
  /\ timerState[1].sessionId = store.sessionId

\* C5: once startWarmup, startFocus, startBreak, pause, resume, complete or
\* skip has resolved with mode # idle, the 'current' record exists and carries
\* the in-memory mode, startedAt, targetAt, pausedAt and sessionId; once stop
\* has resolved there is no 'current' record.
C5_PersistedAfterAction ==
  /\ (lastOp \in {"startWarmup", "startFocus", "startBreak", "pause", "resume",
                  "complete", "skip"} /\ store.mode # "idle")
       => PersistedMatchesMemory
  /\ lastOp = "stop" => timerState = <<>>

\* pause() of a focus phase has resolved and the record carries its pausedAt
C5_Witness ==
  /\ lastOp = "pause"
  /\ store.mode = "focus"
  /\ Truthy(store.pausedAt)
  /\ PersistedMatchesMemory

\* C6: exactly one of idle (mode = idle), running (mode # idle, isRunning, not
\* isPaused) and paused (mode # idle, isPaused, not isRunning) holds.
C6_IdleRunningOrPaused ==
  LET idle == store.mode = "idle"
      running == store.mode # "idle" /\ store.isRunning /\ ~store.isPaused
      paused == store.mode # "idle" /\ store.isPaused /\ ~store.isRunning
  IN  \/ idle /\ ~running /\ ~paused
      \/ ~idle /\ running /\ ~paused
      \/ ~idle /\ ~running /\ paused

\* C7: pause() when the countdown is not running, and resume() when it is not
\* paused, change no field of the timer state (so a second pause() keeps the
\* pausedAt of the first).
C7_RedundantPauseResumeNoOp ==
  [][((Pause /\ ~store.isRunning) \/ (Resume /\ ~store.isPaused))
       => (store' = store /\ timerState' = timerState)]_vars

\* C10: skip() in mode warmup goes to mode focus with the warmup's sessionId
\* and leaves the session records as they were.
C10_SkipWarmupReusesSession ==
  [][(store.mode = "warmup" /\ Skip)
       => /\ store'.mode = "focus"
          /\ store'.sessionId = store.sessionId
          /\ sessions' = sessions]_vars

\* skip() has moved the warmup's session into its focus phase
C10_Witness ==
  /\ lastOp = "skip"
  /\ store.mode = "focus"
  /\ Len(sessions) = 1
  /\ store.sessionId = 1
  /\ store.isRunning

\* C11: skip() in mode focus does what complete() does there: the linked
\* session record is marked completed with actualFocusMs = now - startedAt
\* (the elapsed time, not the planned focusDuration) and the store enters
\* mode break.
C11_SkipFocusCompletes ==
  [][(store.mode = "focus" /\ Truthy(store.sessionId) /\ Skip)
       => /\ sessions'[store.sessionId].completed
          /\ sessions'[store.sessionId].actualFocusMs = now - store.startedAt
          /\ store'.mode = "break"
          /\ store' = complete(World).st
          /\ sessions' = complete(World).sessions]_vars

\* skip() has ended a focus phase that lasted longer than planned
C11_Witness ==
  /\ lastOp = "skip"
  /\ prevMode = "focus"
  /\ store.mode = "break"
  /\ Truthy(store.sessionId)
  /\ sessions[store.sessionId].completed
  /\ sessions[store.sessionId].actualFocusMs > store.focusDuration

\* C12: from mode break, each of complete(), skip() and stop() ends in mode
\* idle with sessionId = null and targetAt = null, not running and not paused.
C12_BreakEndsIdle ==
  [][(store.mode = "break" /\ (Complete \/ Skip \/ Stop))
       => /\ store'.mode = "idle"
          /\ store'.sessionId = NULL
          /\ store'.targetAt = NULL
          /\ ~store'.isRunning
          /\ ~store'.isPaused]_vars

\* skip() has ended the break that followed a completed focus phase
C12_Witness ==
  /\ lastOp = "skip"
  /\ prevMode = "break"
  /\ store.mode = "idle"
  /\ store.sessionId = NULL
  /\ Len(sessions) = 1
  /\ sessions[1].completed

\* C13: stop() from any mode, running or paused, ends in mode idle with
\* targetAt, startedAt, pausedAt and sessionId null and no 'current' record,
\* and leaves every session record as it was (not deleted, not completed).
C13_StopAbandons ==
  [][Stop => /\ store'.mode = "idle"
             /\ store'.targetAt = NULL
             /\ store'.startedAt = NULL
             /\ store'.pausedAt = NULL
             /\ store'.sessionId = NULL
             /\ timerState' = <<>>
             /\ sessions' = sessions]_vars

\* stop() has abandoned a focus phase: its session record is still there,
\* uncompleted
C13_Witness ==
  /\ lastOp = "stop"
  /\ prevMode = "focus"
  /\ store.mode = "idle"
  /\ timerState = <<>>
  /\ Len(sessions) = 1
  /\ ~sessions[1].completed
  /\ ~sessions[1].deleted

\* ---- properties of recovery and of database failures ----

\* the persisted record is a focus countdown, not paused, with its target ahead
PersistedRunningFocus ==
  /\ timerState # <<>>
  /\ timerState[1].mode = "focus"
  /\ ~Truthy(timerState[1].pausedAt)
  /\ Truthy(timerState[1].targetAt)
  /\ timerState[1].targetAt > now

\* C14: with a persisted focus record, not paused, whose targetAt is ahead
\* (and a database that answers), hasRecoverableSession() resolves true and
\* recoverSession() resolves true leaving in memory the persisted mode,
\* targetAt and sessionId, remaining = targetAt - now, and the countdown
\* running with its update interval armed, whatever was in memory before.
C14_RecoveryRoundTrip ==
  /\ [][(PersistedRunningFocus /\ dbFault = "none" /\ HasRecoverable)
          => result' = "true"]_vars
  /\ [][(PersistedRunningFocus /\ dbFault = "none" /\ RecoverSession)
          => /\ result' = "true"
             /\ store'.mode = timerState[1].mode
             /\ store'.targetAt = timerState[1].targetAt
             /\ store'.sessionId = timerState[1].sessionId
             /\ store'.remaining = timerState[1].targetAt - now
             /\ store'.isRunning
             /\ ~store'.isPaused
             /\ updateInterval']_vars

\* recoverSession() on a freshly loaded page (nothing restored yet) has
\* brought back a focus countdown that had been running for a while
C14_Witness ==
  /\ lastOp = "recoverSession"
  /\ result = "true"
  /\ prevMode = "idle"
  /\ loading
  /\ store.mode = "focus"
  /\ store.isRunning
  /\ store.remaining = store.targetAt - now
  /\ store.remaining > 0
  /\ store.remaining < store.focusDuration
  /\ store.sessionId = timerState[1].sessionId

\* C15: whenever a persisted record with mode # idle exists, discardRecovery()
\* leaves no session record with the persisted sessionId, no 'current'
\* record, and mode idle in memory, whether or not the persisted record had
\* been loaded into memory.
C15_DiscardDeletesSession ==
  [][(DiscardRecovery /\ timerState # <<>> /\ timerState[1].mode # "idle")
       => /\ Truthy(timerState[1].sessionId)
               => getSession(sessions', timerState[1].sessionId) = <<>>
          /\ timerState' = <<>>
          /\ store'.mode = "idle"]_vars

\* C16: while reads of the persisted timer state reject,
\* hasRecoverableSession() and recoverSession() resolve false (they do not
\* reject) and leave the in-memory state as it was.
C16_ReadFailureReportsFalse ==
  [][(dbFault = "getTimerState" /\ (HasRecoverable \/ RecoverSession))
       => (result' = "false" /\ store' = store)]_vars

\* the write of the timer state rejects at present
WriteFails == dbFault = "setTimerState"

\* C17: when the write of the timer state rejects during startWarmup,
\* startFocus, startBreak, pause or resume, the action's promise rejects, the
\* in-memory state has the values the action applies (nothing is rolled
\* back), and the 'current' record is as it was (nothing is written, then or
\* by a retry).
C17_PersistFailureNoRollback ==
  /\ [][(WriteFails /\ StartWarmup)
          => /\ result' = "rejected"
             /\ store'.mode = "warmup" /\ store'.isRunning
             /\ store'.targetAt = now + store.warmupDuration
             /\ store'.sessionId = Len(sessions')
             /\ timerState' = timerState]_vars
  /\ [][(WriteFails /\ StartFocus)
          => /\ result' = "rejected"
             /\ store'.mode = "focus" /\ store'.isRunning
             /\ store'.targetAt = now + store.focusDuration
             /\ timerState' = timerState]_vars
  /\ [][(WriteFails /\ StartBreak)
          => /\ result' = "rejected"
             /\ store'.mode = "break" /\ store'.isRunning
             /\ store'.targetAt = now + store.breakDuration
             /\ timerState' = timerState]_vars
  /\ [][(WriteFails /\ Pause /\ store.mode # "idle")
          => /\ result' = "rejected"
             /\ store'.pausedAt = now /\ store'.isPaused /\ ~store'.isRunning
             /\ timerState' = timerState]_vars
  /\ [][(WriteFails /\ Resume /\ store.mode # "idle"
            /\ Truthy(store.pausedAt) /\ Truthy(store.targetAt))
          => /\ result' = "rejected"
             /\ store'.pausedAt = NULL /\ store'.isRunning /\ ~store'.isPaused
             /\ store'.targetAt = store.targetAt + (now - store.pausedAt)
             /\ timerState' = timerState]_vars

\* resume() has rejected on the write and the countdown runs in memory
\* against a target the persisted record does not have
C17_Witness ==
  /\ lastOp = "resume"
  /\ result = "rejected"
  /\ WriteFails
  /\ store.isRunning
  /\ timerState # <<>>
  /\ Truthy(timerState[1].pausedAt)
  /\ timerState[1].targetAt < store.targetAt

\* ---- properties of the TimerEngine with throwing callbacks ----

\* a scheduling primitive is armed: an animation-frame request or its
\* throttling timeout is pending, or a setInterval is live
Armed == updateId = "pending" \/ orphans > 0 \/ timeouts > 0 \/ intervalId

\* C18: after a handler in which onTick, onComplete or onDriftDetected threw,
\* the engine is either running with a scheduling primitive armed or not
\* running with none armed, under frame pacing and under interval pacing.
C18_CallbackIsolation ==
  [][result' = "threw"
       => \/ state'.isRunning /\ Armed'
          \/ ~state'.isRunning /\ ~Armed']_vars

\* scheduling primitives armed: every pending animation-frame request and
\* every pending throttling timeout stands for one frame-paced loop (a request
\* and the timeout that follows it are never pending together), a live
\* setInterval for the interval-paced one
ArmedCount ==
  (IF updateId = "pending" THEN 1 ELSE 0) + orphans + timeouts
    + (IF intervalId THEN 1 ELSE 0)

\* C19: in every reachable state of the engine at most one scheduling
\* primitive is armed, whatever start, pause, resume, stop, setTargetTime and
\* visibility changes happened and whenever the pending callbacks ran.
C19_AtMostOnePrimitive == ArmedCount <= 1

\* ---- properties of drift correction ----

\* the deviation of now from lastUpdate + the nominal interval
Deviation == Abs(now - (state.lastUpdate + config.updateInterval))

\* C20: checkAndCorrectDrift() on a running engine whose clock deviates from
\* lastUpdate + nominal interval by more than the threshold invokes
\* onDriftDetected with that deviation, sets lastUpdate = now and leaves
\* targetAt alone, so getRemaining() is still max(0, targetAt - now).
C20_DriftKeepsTarget ==
  [][(EngCheckDrift /\ state.isRunning /\ Deviation > config.driftThreshold)
       => /\ calls' # <<>>
          /\ calls'[1] = Call("onDriftDetected", Deviation)
          /\ state'.lastUpdate = now
          /\ state'.targetAt = state.targetAt
          /\ getRemaining(state') = Max(0, state.targetAt - now)]_vars

\* C21: stop() and destroy() return without error and without invoking a
\* callback in whatever state the engine is (lastOp names the last call, and
\* stays while the clock moves), and once destroy() has returned no frame,
\* timeout, interval or visibility event invokes onTick, onComplete or
\* onDriftDetected
Destroyed == ~listening
C21_DestroySilencesCallbacks ==
  [][/\ (lastOp' \in {"stop", "destroy"}) => (result' = "void" /\ calls' = <<>>)
     /\ (lastOp' = "destroy") => (Destroyed' /\ ~state'.isRunning /\ ~intervalId')
     /\ Destroyed => calls' = <<>>]_vars

\* an animation frame requested before destroy() runs after it
C21_Witness == Destroyed /\ lastOp = "raf"

\* C22: start(durationMs, mode) in any engine state sets targetAt = now +
\* durationMs, startedAt = now, pausedAt = null, isRunning = true, so that
\* getRemaining() right afterwards is within one tick interval of durationMs;
\* and every onComplete belongs to the countdown the state record holds (its
\* target has passed), never to a countdown that start() replaced
C22_StartReplacesCountdown ==
  /\ [][EngStart =>
         \E d \in EngineDurations :
           /\ state'.targetAt = now + d
           /\ state'.startedAt = now
           /\ state'.pausedAt = NULL
           /\ state'.isRunning
           /\ Abs(getRemaining(state') - d) <= TIMER_UPDATE_INTERVAL]_vars
  /\ [][HasCall(calls', "onComplete") =>
         (state.isRunning /\ Truthy(state.targetAt) /\ state.targetAt <= now)]_vars

\* start() is called over a countdown whose throttling timeout is still pending
C22_Witness ==
  lastOp = "start" /\ updateId = "fired" /\ timeouts > 0 /\ state.startedAt = now

\* C23: in every reachable state of the TimerEngine and of the timer store,
\* pausedAt != null implies isRunning = false
C23_PausedNotRunning ==
  /\ (state.pausedAt # NULL => ~state.isRunning)
  /\ (store.pausedAt # NULL => ~store.isRunning)

\* restoreState() has loaded a paused phase whose target has not passed
C23_Witness ==
  /\ lastOp = "load"
  /\ store.pausedAt # NULL
  /\ store.mode # "idle"
  /\ store.targetAt > now

\* C24: the only mode changes the store's actions produce are idle->warmup,
\* idle->focus, warmup->focus, focus->break, break->idle and any->idle;
\* restoring a persisted phase is not counted as a mode change
ListedModeChanges ==
  {<<"idle", "warmup">>, <<"idle", "focus">>, <<"warmup", "focus">>,
   <<"focus", "break">>, <<"break", "idle">>}
C24_OnlyListedModeChanges ==
  [][(store'.mode # store.mode /\ ~(ModuleLoad \/ RecoverSession))
       => (<<store.mode, store'.mode>> \in ListedModeChanges \/ store'.mode = "idle")]_vars

\* C25: the store's pause() and resume() keep mode, sessionId and startedAt;
\* resume() at time r of a phase paused at time p moves targetAt by r - p, so
\* that the time remaining at the resume is the time that remained at the pause
C25_PauseResumeKeepRemaining ==
  /\ [][(Pause \/ Resume) =>
         /\ store'.mode = store.mode
         /\ store'.sessionId = store.sessionId
         /\ store'.startedAt = store.startedAt]_vars
  /\ [][(Resume /\ Truthy(store.pausedAt) /\ Truthy(store.targetAt)) =>
         /\ store'.targetAt = store.targetAt + (now - store.pausedAt)
         /\ store'.targetAt - now = store.targetAt - store.pausedAt]_vars

\* a focus phase resumed after a pause that lasted: its target lies further
\* from its start than the focus duration
C25_Witness ==
  /\ lastOp = "resume"
  /\ store.mode = "focus"
  /\ store.isRunning
  /\ store.targetAt - store.startedAt > store.focusDuration

\* C26: when focus completes on a session that has a record, moodEnd is
\* written to the record (with the selected mood) if a mood is selected and
\* differs from the record's moodStart, and the record's moodEnd is left as it
\* was otherwise
FocusCompletes ==
  /\ HasCall(calls', "onSessionCompleted")
  /\ getSession(sessions, store.sessionId) # <<>>
MoodSelected == store.moodStart # "none"
MoodDiffers == store.moodStart # sessions[store.sessionId].moodStart
MoodEndWritten ==
  MoodSelected /\ sessions'[store.sessionId].moodEnd = store.moodStart
MoodEndUntouched ==
  sessions'[store.sessionId].moodEnd = sessions[store.sessionId].moodEnd
C27_SwitchKeepsOneLoop ==
  [][(VisibilityChange /\ state.isRunning /\ state'.isRunning) =>
       /\ state'.targetAt = state.targetAt
       /\ Armed => Armed'
       /\ ArmedCount = 1 => ArmedCount' = 1]_vars

\* C28: getRemaining() is max(0, targetAt - now) while the countdown is
\* running, 0 while the engine is idle (targetAt null) or paused (pausedAt set),
\* and never negative
C28_GetRemaining ==
  /\ getRemaining(state) >= 0
  /\ state.isRunning => getRemaining(state) = Max(0, state.targetAt - now)
  /\ (state.targetAt = NULL \/ state.pausedAt # NULL) => getRemaining(state) = 0

\* a paused countdown whose target lies ahead
C28_Witness == state.pausedAt # NULL /\ state.targetAt > now

\* C29: setTargetTime(targetAt, mode, startedAt) leaves pausedAt null and the
\* engine running exactly when targetAt > now; a loop is armed afterwards
\* exactly when the engine is running; and no onTick or onComplete is invoked
\* while the engine is not running
C29_SetTargetTimeArmsIffFuture ==
  /\ [][EngSetTargetTime =>
         /\ state'.pausedAt = NULL
         /\ state'.isRunning <=> state'.targetAt > now
         /\ state'.isRunning <=> Armed']_vars
  /\ [][(HasCall(calls', "onTick") \/ HasCall(calls', "onComplete"))
         => state.isRunning]_vars

\* C30: subtractTime(ms) with ms >= 0 on an engine that has a target sets
\* targetAt = max(now, targetAt - ms), so the target is not before now right
\* after the call; addTime(ms) sets targetAt = targetAt + ms; with no target
\* both leave the engine as it is
C30_AdjustTarget ==
  [][\A ms \in AdjustMs :
       /\ SubtractTimeBy(ms) =>
             IF Truthy(state.targetAt)
             THEN state'.targetAt = Max(now, state.targetAt - ms) /\ state'.targetAt >= now
             ELSE state' = state
       /\ AddTimeBy(ms) =>
             IF Truthy(state.targetAt)
             THEN state'.targetAt = state.targetAt + ms
             ELSE state' = state]_vars

\* subtractTime() took more than what remained of a running countdown
C30_Witness ==
  lastOp = "subtractTime" /\ state.isRunning /\ state.targetAt = now
    /\ state.startedAt < now

\* ---- properties of the timer store, continued ----

\* C31: in every reachable state of the timer store, mode != idle implies
\* targetAt != null, and isPaused is true exactly when pausedAt != null
C31_TargetAndPauseFlag ==
  /\ store.mode # "idle" => store.targetAt # NULL
  /\ store.isPaused <=> store.pausedAt # NULL

\* a paused phase brought back by restoreState()
C31_Witness ==
  /\ lastOp = "load"
  /\ store.mode # "idle"
  /\ store.isPaused
  /\ store.targetAt # NULL

\* C32: when the page becomes visible while the countdown is running and
\* |now - (lastUpdate + nominal interval)| exceeds the drift threshold, the
\* store sets remaining = max(0, targetAt - now) and lastUpdate = now, keeps
\* targetAt and mode, and the new remaining is not larger than the one shown
\* before
C32_VisibleRecomputesRemaining ==
  [][(StoreVisibilityChangeTo(FALSE) /\ store.isRunning
        /\ Abs(now - (store.lastUpdate + TIMER_UPDATE_INTERVAL)) > DRIFT_THRESHOLD)
       => /\ store'.remaining = Max(0, store.targetAt - now)
          /\ store'.lastUpdate = now
          /\ store'.targetAt = store.targetAt
          /\ store'.mode = store.mode
          /\ store'.remaining <= store.remaining]_vars

\* ---- store actions across their database await ----
\* The actions above run a store action to its end in one step: the run in
\* which nothing else is handled while the action awaits the database.  Here
\* an action that awaits databaseService runs up to the await (its database
\* call issued), and its continuation is a step of its own.

\* the local variables of an action suspended at its await
Suspended(op, at, targetAt, sessionId) ==
  [op |-> op, now |-> at, targetAt |-> targetAt, sessionId |-> sessionId]

\* startWarmup up to `await databaseService.createSession`
startWarmupCall(w) ==
  LET w1 == [w EXCEPT !.sessions = createSession(@, NewSession(w.st))]
  IN  [w1 EXCEPT !.inflight =
         Append(@, Suspended("startWarmup", now, now + w.st.warmupDuration,
                             Len(w1.sessions)))]

\* startWarmup from the await on
startWarmupSettle(w, k) ==
  persistState(set(w, [w.st EXCEPT !.mode = "warmup", !.startedAt = k.now,
                                   !.targetAt = k.targetAt, !.pausedAt = NULL,
                                   !.sessionId = k.sessionId, !.isRunning = TRUE,
                                   !.isPaused = FALSE, !.lastUpdate = k.now]))

\* startFocus up to `await databaseService.createSession`; with a linked
\* session and skipWarmup false nothing is awaited before set()
startFocusCall(w, skipWarmup) ==
  IF ~Truthy(w.st.sessionId) \/ skipWarmup
  THEN LET w1 == [w EXCEPT !.sessions = createSession(@, NewSession(w.st))]
       IN  [w1 EXCEPT !.inflight =
              Append(@, Suspended("startFocus", now, now + w.st.focusDuration,
                                  Len(w1.sessions)))]
  ELSE [startFocus(w, skipWarmup) EXCEPT !.effects = NoEffects]

\* startFocus from the await on
startFocusSettle(w, k) ==
  LET w1 == [w EXCEPT !.effects = NoEffects]
  IN  persistState(set(w1, [w1.st EXCEPT !.mode = "focus", !.startedAt = k.now,
                                         !.targetAt = k.targetAt, !.pausedAt = NULL,
                                         !.sessionId = k.sessionId, !.isRunning = TRUE,
                                         !.isPaused = FALSE, !.lastUpdate = k.now]))

\* complete up to `await databaseService.completeSession`
completeCall(w) ==
  IF Truthy(w.st.sessionId) /\ w.st.mode = "focus"
  THEN LET actualFocusMs == IF Truthy(w.st.startedAt) THEN now - w.st.startedAt
                            ELSE w.st.focusDuration
           existing == getSession(w.sessions, w.st.sessionId)
           moodEnd == IF w.st.moodStart # "none" /\ existing # <<>>
                         /\ existing[1].moodStart # w.st.moodStart
                      THEN w.st.moodStart ELSE "none"
       IN  [w EXCEPT !.sessions =
                       completeSession(@, w.st.sessionId,
                                       [actualFocusMs |-> actualFocusMs,
                                        moodEnd |-> moodEnd]),
                     !.effects.completeSession = @ + 1,
                     !.inflight = Append(@, Suspended("complete", now, NULL,
                                                      w.st.sessionId))]
  ELSE storeStop(w)

\* complete from the await on: onSessionCompleted(), then get().startBreak()
completeSettle(w, k) ==
  startBreak([w EXCEPT !.calls = Append(@, Call("onSessionCompleted", 0)),
                       !.effects.onSessionCompleted = @ + 1,
                       !.effects.startBreak = @ + 1])

skipCall(w) ==
  IF w.st.mode = "warmup" THEN startFocusCall(w, FALSE)
  ELSE IF w.st.mode = "focus" THEN completeCall(w)
  ELSE IF w.st.mode = "break" THEN storeStop(w)
  ELSE w

\* updateRemaining; its get().complete() is not awaited
updateRemainingCall(w) ==
  IF ~Truthy(w.st.targetAt) \/ w.st.isPaused THEN w
  ELSE LET remaining == calculateRemaining(w.st.targetAt)
           w1 == set(w, [w.st EXCEPT !.remaining = remaining, !.lastUpdate = now])
       IN  IF remaining = 0 /\ w.st.isRunning THEN completeCall(w1) ELSE w1

\* the database promise of the i-th suspended action resolves
settle(w, i) ==
  LET k == w.inflight[i]
      w1 == [w EXCEPT !.inflight = SubSeq(@, 1, i - 1) \o SubSeq(@, i + 1, Len(@))]
  IN  CASE k.op = "startWarmup" -> startWarmupSettle(w1, k)
        [] k.op = "startFocus" -> startFocusSettle(w1, k)
        [] k.op = "complete" -> completeSettle(w1, k)

StartWarmupCall ==
  /\ Len(sessions) < MaxSessions
  /\ Len(inflight) < MaxInflight
  /\ ApplyStore(startWarmupCall(World), "startWarmup")

StartFocusCall ==
  \E skipWarmup \in BOOLEAN :
    /\ (~Truthy(store.sessionId) \/ skipWarmup) => Len(sessions) < MaxSessions
    /\ Len(inflight) < MaxInflight
    /\ ApplyStore(startFocusCall(World, skipWarmup), "startFocus")

\* complete() called by the hook's handleTimerComplete (the engine's
\* onComplete handler) or by the caller
CompleteCall ==
  /\ Len(inflight) < MaxInflight
  /\ ApplyStore(completeCall(World), "complete")

SkipCall ==
  /\ Len(inflight) < MaxInflight
  /\ ApplyStore(skipCall(World), "skip")

UpdateTickCall ==
  /\ updateInterval
  /\ Len(inflight) < MaxInflight
  /\ ApplyStore(updateRemainingCall(World), "updateRemaining")

Settle ==
  \E i \in 1..Len(inflight) : ApplyStore(settle(World, i), "settle")

NextAsync ==
  \/ StartWarmupCall \/ StartFocusCall
  \/ CompleteCall \/ SkipCall \/ UpdateTickCall
  \/ Settle
  \/ Stop
  \/ StoreAdvance

SpecAsync == Init /\ [][NextAsync]_vars

\* C33: a focus phase is completed at most once, however its completion is
\* triggered: between two starts of focus, completeSession is issued at most
\* once, onSessionCompleted is called at most once and startBreak is run at
\* most once, also when complete() is invoked again while an earlier
\* complete() still awaits the database.
C33_CompletedOncePerFocus ==
  /\ effects.completeSession <= 1
  /\ effects.onSessionCompleted <= 1
  /\ effects.startBreak <= 1

\* C34: stop() is final against actions in flight: when stop() was the last
\* operation handled, the continuation of an action suspended before it
\* (complete(), startWarmup() or startFocus() at its database await) leaves
\* the mode idle and the persisted timer-state record absent.
C34_StopIsFinal ==
  [][(lastOp = "stop" /\ lastOp' = "settle")
       => (store'.mode = "idle" /\ timerState' = <<>>)]_vars

\* ---- the useTimer hook: one engine wired to the store ----
\* the engine's callbacks as useTimer configures them: onTick calls the
\* store's updateRemaining(), onComplete calls handleTimerComplete, which ends
\* with the store's complete(); neither awaits the store action
hookCallback(w, c) ==
  IF c.f = "onTick" THEN updateRemainingCall(w)
  ELSE IF c.f = "onComplete" THEN completeCall(w)
  ELSE w

RECURSIVE deliver(_, _)
deliver(w, cs) ==
  IF cs = <<>> THEN w ELSE deliver(hookCallback(w, Head(cs)), Tail(cs))

\* the effect with dependencies [mode, isRunning]
syncEffect(e, st) ==
  IF Truthy(st.targetAt) /\ st.mode # "idle"
  THEN setTargetTime(e, st.targetAt, st.mode, st.startedAt)
  ELSE IF st.mode = "idle" THEN stop(e)
  ELSE e

\* React runs the effect after a render in which a dependency changed
afterRender(e, before, after) ==
  IF before.mode # after.mode \/ before.isRunning # after.isRunning
  THEN syncEffect(e, after)
  ELSE e

ApplyHook(e0, w, op) ==
  LET e == afterRender(e0, store, w.st)
  IN  /\ e.orphans <= MaxPending
      /\ e.timeouts <= MaxPending
      /\ Len(w.inflight) <= MaxInflight
      /\ state' = e.s
      /\ updateId' = e.updateId
      /\ orphans' = e.orphans
      /\ timeouts' = e.timeouts
      /\ intervalId' = e.intervalId
      /\ isVisible' = e.isVisible
      /\ completions' = e.completions
      /\ store' = w.st
      /\ updateInterval' = w.updateInterval
      /\ sessions' = w.sessions
      /\ timerState' = w.timerState
      /\ inflight' = w.inflight
      /\ effects' = w.effects
      /\ Observe(op, e0.calls \o w.calls)
      /\ prevMode' = store.mode
      /\ result' = IF w.threw THEN "rejected" ELSE w.ret
      /\ UNCHANGED <<now, rafSupported, configUpdateInterval, listening, dbFault, loading>>

\* an engine event: the engine's handler runs and its callbacks reach the store
HookEvent(e, op) == ApplyHook(e, deliver(World, e.calls), op)

\* a store action invoked by the caller (through useTimerControls)
HookAction(w, op) == ApplyHook(Engine, w, op)

HookStartFocus ==
  /\ Len(sessions) < MaxSessions
  /\ HookAction(startFocusCall(World, TRUE), "startFocus")
HookPause == HookAction(storePause(World), "pause")
HookResume == HookAction(storeResume(World), "resume")
HookStop == HookAction(storeStop(World), "stop")
HookSettle ==
  \E i \in 1..Len(inflight) : HookAction(settle(World, i), "settle")
HookUpdateTick ==
  /\ updateInterval
  /\ HookAction(updateRemainingCall(World), "updateRemaining")
HookRafFire ==
  /\ updateId = "pending"
  /\ HookEvent(rafCallback([Engine EXCEPT !.updateId = "fired"]), "raf")
HookOrphanRafFire ==
  /\ orphans > 0
  /\ HookEvent(rafCallback([Engine EXCEPT !.orphans = @ - 1]), "raf")
HookTimeoutFire ==
  /\ timeouts > 0
  /\ HookEvent(scheduleRAFUpdate([Engine EXCEPT !.timeouts = @ - 1]), "timeout")

NextHook ==
  \/ HookStartFocus \/ HookPause \/ HookResume \/ HookStop
  \/ HookSettle
  \/ HookUpdateTick
  \/ HookRafFire \/ HookOrphanRafFire \/ HookTimeoutFire
  \/ StoreAdvance

SpecHook == Init /\ [][NextHook]_vars

\* C35: a paused phase does not complete by itself: while isPaused is true, a
\* step that is not an action invoked by the caller (an animation frame or
\* throttling timeout of the engine, a tick of the store's interval, the
\* passing of time) leaves the mode and every session record as they are,
\* also with the engine wired to the store by useTimer.
C35_PausedStaysPaused ==
  [][(store.isPaused /\ (lastOp' \in {"raf", "timeout", "updateRemaining"} \/ now' # now))
       => (store'.mode = store.mode /\ sessions' = sessions)]_vars

\* C36: recovering a paused session: when the persisted record has pausedAt
\* set, recoverSession() leaves the store paused (isPaused, not isRunning) with
\* the persisted pausedAt and targetAt, and remaining = targetAt - pausedAt,
\* whatever time has passed since the pause.
C36_RecoverPaused ==
  [][(lastOp' = "recoverSession" /\ result' = "true"
        /\ timerState # <<>> /\ Truthy(timerState[1].pausedAt))
       => /\ store'.isPaused /\ ~store'.isRunning
          /\ store'.pausedAt = timerState[1].pausedAt
          /\ store'.targetAt = timerState[1].targetAt
          /\ store'.remaining = timerState[1].targetAt - timerState[1].pausedAt]_vars

\* C37: drift reporting agrees with the engine's configuration: on a running
\* engine checkAndCorrectDrift() invokes onDriftDetected exactly when now
\* deviates from lastUpdate + config.updateInterval by more than
\* config.driftThreshold, and every magnitude it reports is above the threshold.
C37_DriftReportConsistent ==
  [][(lastOp' = "checkAndCorrectDrift" /\ state.isRunning /\ Truthy(state.targetAt))
       => /\ HasCall(calls', "onDriftDetected") <=> Deviation > config.driftThreshold
          /\ \A i \in 1..Len(calls') :
               calls'[i].f = "onDriftDetected" => calls'[i].arg > config.driftThreshold]_vars

\* ---- the work cycle left to itself ----
\* The caller starts phases and reloads the page; it never pauses, stops or
\* skips.  What runs by itself is fair: the store's interval fires while it is
\* armed, the restoreState() of a page load settles, wall-clock time passes.
NextLive ==
  \/ StartWarmup \/ StartFocus \/ StartBreak
  \/ UpdateTick
  \/ PageLoad \/ RestoreSettles \/ RecoverSession
  \/ StoreAdvance

SpecLive ==
  /\ Init /\ [][NextLive]_vars
  /\ WF_vars(UpdateTick) /\ WF_vars(RestoreSettles) /\ WF_vars(StoreAdvance)

\* a phase that neither runs nor is paused
Stalled == store.mode # "idle" /\ ~store.isRunning /\ ~store.isPaused

\* C38: the work cycle keeps moving by itself: a phase that is neither
\* running nor paused (as after restoring a record whose targetAt has passed)
\* does not stay so forever; with fair ticks and passing time the store
\* leaves that state.
C38_NoStalledPhase == Stalled ~> ~Stalled

\* C39: after any sequence of store actions the module-level update interval
\* is armed exactly when isRunning is true (so it is armed when isRunning
\* turns true and cleared when it turns false, and never armed twice).
C39_IntervalIffRunning == updateInterval <=> store.isRunning
C39_Witness ==
  lastOp = "resume" /\ prevMode # "idle" /\ updateInterval /\ store.isRunning

====
